---- MODULE Spec2Model ----
(***************************************************************************)
(* Watchman duplicate device reporter: the duplicate detection pipeline of *)
(* watchman_duplicate_check.py (DuplicateReporter.parse_last_report,       *)
(* find_duplicates, identify_devices_to_remove) as main() drives it.       *)
(*                                                                         *)
(* Python strings are sequences of one-character strings, so that replace, *)
(* lower, strip, split, slicing and the parsers act on the characters.     *)
(* A Python int is written as its decimal literal (an optional "-" and     *)
(* digits), so that values of any magnitude can be given to the parser.    *)
(***************************************************************************)
EXTENDS Integers, Sequences, FiniteSets, TLC

VARIABLES
    computers,          \* the list api.get_all_computers() returned to main
    tz,                 \* offset of the local timezone from UTC, in seconds
    pc,                 \* where main is
    duplicate_groups,   \* result of find_duplicates: the dict, in insertion order
    devices_to_remove,  \* result of identify_devices_to_remove
    analysis,           \* per analysed group: the sorted computer_dates and the keeper
    warnings,           \* the last_report values parse_last_report warned about
    page,               \* get_all_computers: the page to request
    depth,              \* the calls of _make_request above the one get_all_computers made
    limited,            \* the server answers 429 to every request from now on
    received,           \* the bodies get_all_computers received, in order
    args,               \* the command line: no_email, email_only, export_csv
    smtp_configured,    \* email_reporter.smtp_configured
    results,            \* the report main builds
    csv_file,           \* main's csv_file
    email_sent,         \* what send_report_email returned to main
    previous            \* the outcome of the run before this one, on the same input

vars == <<computers, tz, pc, duplicate_groups, devices_to_remove, analysis, warnings,
          page, depth, limited, received, args, smtp_configured, results, csv_file,
          email_sent, previous>>

\* the state of get_all_computers and of the server
fetch_vars == <<page, depth, limited, received>>

\* what every run is given: the command line, the configuration, the timezone
\* of the process, and the run before it
given_vars == <<tz, args, smtp_configured, previous>>

\* what main holds from find_duplicates on
found_vars == <<duplicate_groups, devices_to_remove, analysis, warnings>>

\* what main holds from the report on
report_vars == <<results, csv_file, email_sent>>

----------------------------------------------------------------------------
(* Bounds of the model *)

\* longest list of computers the fetch returns
MaxComputers == 3

\* longest list of computers in the runs that cover every shape of last_report
MaxParsed == 2

\* longest list of computers in the runs that go on to the report, under
\* every command line
MaxOptioned == 2

----------------------------------------------------------------------------
(* Python str operations, on sequences of characters *)

Whitespace == {" ", "\t", "\n", "\r"}

UpperCase == <<"A","B","C","D","E","F","G","H","I","J","K","L","M",
               "N","O","P","Q","R","S","T","U","V","W","X","Y","Z">>
LowerCase == <<"a","b","c","d","e","f","g","h","i","j","k","l","m",
               "n","o","p","q","r","s","t","u","v","w","x","y","z">>

\* c.lower() for one character
LowerChar(c) ==
    IF \E i \in 1..Len(UpperCase) : UpperCase[i] = c
    THEN LowerCase[CHOOSE i \in 1..Len(UpperCase) : UpperCase[i] = c]
    ELSE c

\* s.lower()
Lower(s) == [i \in 1..Len(s) |-> LowerChar(s[i])]

\* s.replace(c, ''): every occurrence of the character c removed
Remove(s, c) == SelectSeq(s, LAMBDA x : x # c)

\* s.replace(c, d) for two characters
ReplaceChar(s, c, d) == [i \in 1..Len(s) |-> IF s[i] = c THEN d ELSE s[i]]

\* c in s
Contains(s, c) == \E i \in 1..Len(s) : s[i] = c

\* s.split(c)[0]: the part of s before the first c, all of s when c is not in s
SplitFirst(s, c) ==
    IF Contains(s, c)
    THEN SubSeq(s, 1, (CHOOSE i \in 1..Len(s) :
                          s[i] = c /\ \A j \in 1..(i - 1) : s[j] # c) - 1)
    ELSE s

\* s[-k:]: the last k characters, all of s when it is shorter
Tail_k(s, k) == IF Len(s) <= k THEN s ELSE SubSeq(s, Len(s) - k + 1, Len(s))

\* s.strip(): leading and trailing whitespace removed
Strip(s) ==
    LET keep == {i \in 1..Len(s) : s[i] \notin Whitespace}
    IN  IF keep = {} THEN <<>>
        ELSE SubSeq(s, CHOOSE i \in keep : \A j \in keep : i <= j,
                       CHOOSE i \in keep : \A j \in keep : j <= i)

----------------------------------------------------------------------------
(* Device records.  system_mac_address is null (None, or the key absent)   *)
(* or a string; last_report is null, an int or a string.                   *)

\* computer.get('system_mac_address') when the key is absent or null
NoMac == [null |-> TRUE, s |-> <<>>]
Mac(s) == [null |-> FALSE, s |-> s]

NullReport == [t |-> "null", s |-> <<>>]
IntReport(literal) == [t |-> "int", s |-> literal]
StrReport(s) == [t |-> "str", s |-> s]

\* length a normalized MAC address must have (find_duplicates)
MacLength == 12

\* the condition of the first `continue` of find_duplicates:
\* not system_mac or system_mac.strip() == ''
mac_missing(system_mac) ==
    \/ system_mac.null
    \/ system_mac.s = <<>>
    \/ Strip(system_mac.s) = <<>>

\* a variant of normalized_mac that strips before it removes the separators
normalized_mac_strip_first(s) == Lower(Remove(Remove(Strip(s), ":"), "-"))

\* a variant of normalized_mac without strip()
normalized_mac_untrimmed(s) == Lower(Remove(Remove(s, ":"), "-"))

\* a variant of normalized_mac without lower()
normalized_mac_case_kept(s) == Strip(Remove(Remove(s, ":"), "-"))

\* system_mac.replace(':', '').replace('-', '').lower().strip()
normalized_mac(s) == Strip(Lower(Remove(Remove(s, ":"), "-")))

\* a variant of mac_accepted without the test of the length
mac_accepted_any_length(system_mac) == ~mac_missing(system_mac)

\* whether find_duplicates appends the computer to a bucket
mac_accepted(system_mac) ==
    /\ ~mac_missing(system_mac)
    /\ Len(normalized_mac(system_mac.s)) = MacLength

\* a variant of bucket_append that puts the computer at the head of its bucket
bucket_prepend(mac_groups, mac, computer) ==
    IF \E i \in 1..Len(mac_groups) : mac_groups[i].mac = mac
    THEN [i \in 1..Len(mac_groups) |->
            IF mac_groups[i].mac = mac
            THEN [mac_groups[i] EXCEPT !.computers = <<computer>> \o @]
            ELSE mac_groups[i]]
    ELSE Append(mac_groups, [mac |-> mac, computers |-> <<computer>>])

\* mac_groups[normalized_mac].append(computer), mac_groups being a dict in
\* insertion order: a sequence of [mac, computers] entries
bucket_append(mac_groups, mac, computer) ==
    IF \E i \in 1..Len(mac_groups) : mac_groups[i].mac = mac
    THEN [i \in 1..Len(mac_groups) |->
            IF mac_groups[i].mac = mac
            THEN [mac_groups[i] EXCEPT !.computers = Append(@, computer)]
            ELSE mac_groups[i]]
    ELSE Append(mac_groups, [mac |-> mac, computers |-> <<computer>>])

\* the for loop of find_duplicates over cs, starting from mac_groups
RECURSIVE mac_groups_of(_, _)
mac_groups_of(cs, mac_groups) ==
    IF cs = <<>> THEN mac_groups
    ELSE LET computer == Head(cs)
         IN  mac_groups_of(Tail(cs),
                IF mac_accepted(computer.system_mac_address)
                THEN bucket_append(mac_groups,
                        normalized_mac(computer.system_mac_address.s), computer)
                ELSE mac_groups)

\* a variant of duplicate_filter that lets only the buckets of two through
duplicate_filter_pairs(entry) == Len(entry.computers) = 2

\* a variant of duplicate_filter that lets every bucket through
duplicate_filter_any(entry) == Len(entry.computers) > 0

\* the filter of find_duplicates: only buckets with more than one computer
duplicate_filter(entry) == Len(entry.computers) > 1

find_duplicates(cs) == SelectSeq(mac_groups_of(cs, <<>>), duplicate_filter)

----------------------------------------------------------------------------
(* Numbers and datetime values *)

Digit == <<"0","1","2","3","4","5","6","7","8","9">>

IsDigit(c) == \E i \in 1..10 : Digit[i] = c

DigitVal(c) == (CHOOSE i \in 1..10 : Digit[i] = c) - 1

\* the character at index i (from 1), "" past either end
At(s, i) == IF i \in 1..Len(s) THEN s[i] ELSE ""

\* how many digits stand at s[p], s[p+1], ...
DigitRun(s, p) ==
    IF p < 1 \/ p > Len(s) THEN 0
    ELSE CHOOSE r \in 0..(Len(s) - p + 1) :
            /\ \A i \in p..(p + r - 1) : IsDigit(s[i])
            /\ ~IsDigit(At(s, p + r))

\* how many whitespace characters stand at s[p], s[p+1], ...
SpaceRun(s, p) ==
    IF p < 1 \/ p > Len(s) THEN 0
    ELSE CHOOSE r \in 0..(Len(s) - p + 1) :
            /\ \A i \in p..(p + r - 1) : s[i] \in Whitespace
            /\ At(s, p + r) \notin Whitespace

\* the value of a short sequence of digits
RECURSIVE NatOf(_)
NatOf(ds) ==
    IF ds = <<>> THEN 0
    ELSE 10 * NatOf(SubSeq(ds, 1, Len(ds) - 1)) + DigitVal(ds[Len(ds)])

\* a datetime: d is the proleptic Gregorian ordinal of the date (toordinal()),
\* s the second of the day, us the microsecond.  k also names what else the
\* body of the try block of parse_last_report can end with.
datetime(d, s, us) == [k |-> "dt", d |-> d, s |-> s, us |-> us]
Raises(exception) == [k |-> exception, d |-> 0, s |-> 0, us |-> 0]
None == [k |-> "None", d |-> 0, s |-> 0, us |-> 0]

\* datetime.min = datetime(1, 1, 1, 0, 0)
datetime_min == datetime(1, 0, 0)

\* datetime(1970, 1, 1).toordinal() and datetime.max.toordinal()
EpochOrdinal == 719163
MaxOrdinal == 3652059
SecondsPerDay == 86400

\* a < b for two datetimes
Before(a, b) ==
    \/ a.d < b.d
    \/ a.d = b.d /\ a.s < b.s
    \/ a.d = b.d /\ a.s = b.s /\ a.us < b.us

IsLeap(y) == y % 4 = 0 /\ (y % 100 # 0 \/ y % 400 = 0)

DaysInMonth(y, m) ==
    IF m = 2 THEN (IF IsLeap(y) THEN 29 ELSE 28)
    ELSE IF m \in {4, 6, 9, 11} THEN 30 ELSE 31

RECURSIVE DaysBeforeMonth(_, _)
DaysBeforeMonth(y, m) ==
    IF m = 1 THEN 0 ELSE DaysBeforeMonth(y, m - 1) + DaysInMonth(y, m - 1)

\* datetime(y, m, d).toordinal()
Ordinal(y, m, d) ==
    365 * (y - 1) + ((y - 1) \div 4) - ((y - 1) \div 100) + ((y - 1) \div 400)
    + DaysBeforeMonth(y, m) + d

\* the tokens of a string: each run of digits, each run of whitespace and
\* each other character, as [k |-> kind, s |-> characters]
TokenKind(c) ==
    IF IsDigit(c) THEN "digits" ELSE IF c \in Whitespace THEN "space" ELSE "char"

TokenLen(s) ==
    IF IsDigit(s[1]) THEN DigitRun(s, 1)
    ELSE IF s[1] \in Whitespace THEN SpaceRun(s, 1)
    ELSE 1

RECURSIVE Tokens(_)
TokensFrom(s, n) ==
    <<[k |-> TokenKind(s[1]), s |-> SubSeq(s, 1, n)]>> \o Tokens(SubSeq(s, n + 1, Len(s)))

Tokens(s) == IF s = <<>> THEN <<>> ELSE TokensFrom(s, TokenLen(s))

\* token i is a run of at most `most` digits / the character c / whitespace
HasDigits(t, i, most) == i <= Len(t) /\ t[i].k = "digits" /\ Len(t[i].s) <= most
HasChar(t, i, cs) == i <= Len(t) /\ t[i].k # "digits" /\ Len(t[i].s) = 1 /\ t[i].s[1] \in cs
HasSpace(t, i) == i <= Len(t) /\ t[i].k = "space"

\* the tokens after the first n
Drop(t, n) == SubSeq(t, n + 1, Len(t))

\* datetime(Y, m, d, H, M, S) built from the fields strptime matched
strptime_fields(Y, m, d, H, M, S) ==
    IF /\ Y >= 1
       /\ m \in 1..12
       /\ d >= 1 /\ d <= DaysInMonth(Y, m)
       /\ H <= 23 /\ M <= 59 /\ S <= 59
    THEN datetime(Ordinal(Y, m, d), H * 3600 + M * 60 + S, 0)
    ELSE Raises("ValueError")

\* '%Y-%m-' : four digits, "-", one or two digits, "-"
DateShape(t) ==
    /\ HasDigits(t, 1, 4) /\ Len(t[1].s) = 4
    /\ HasChar(t, 2, {"-"})
    /\ HasDigits(t, 3, 2)
    /\ HasChar(t, 4, {"-"})

\* ' %H:%M:%S' from token i to the last token
TimeShape(t, i) ==
    /\ Len(t) = i + 5
    /\ HasSpace(t, i)
    /\ HasDigits(t, i + 1, 2)
    /\ HasChar(t, i + 2, {":"})
    /\ HasDigits(t, i + 3, 2)
    /\ HasChar(t, i + 4, {":"})
    /\ HasDigits(t, i + 5, 2)

\* strptime on the tokens of the string; %d is one or two digits, or one
\* space and one digit from 1 to 9
strptime_tokens(t) ==
    IF DateShape(t) /\ HasDigits(t, 5, 2) /\ TimeShape(t, 6)
    THEN strptime_fields(NatOf(t[1].s), NatOf(t[3].s), NatOf(t[5].s),
                         NatOf(t[7].s), NatOf(t[9].s), NatOf(t[11].s))
    ELSE IF /\ DateShape(t) /\ HasChar(t, 5, {" "})
            /\ HasDigits(t, 6, 1) /\ t[6].s # <<"0">> /\ TimeShape(t, 7)
    THEN strptime_fields(NatOf(t[1].s), NatOf(t[3].s), NatOf(t[6].s),
                         NatOf(t[8].s), NatOf(t[10].s), NatOf(t[12].s))
    ELSE Raises("ValueError")

\* datetime.strptime(s, '%Y-%m-%d %H:%M:%S').  The format compiles to a
\* regular expression of digit fields between literal separators, the space
\* of the format matching one or more whitespace characters; every field
\* must be the whole run of digits standing there, and the match must end
\* at the end of s.
strptime(s) == strptime_tokens(Tokens(s))

----------------------------------------------------------------------------
(* float(s) and datetime.fromtimestamp *)

RECURSIVE Zeros(_)
Zeros(n) == IF n <= 0 THEN <<>> ELSE <<"0">> \o Zeros(n - 1)

\* digits without their leading zeros (<<>> is zero)
RECURSIVE StripZeros(_)
StripZeros(ds) ==
    IF ds # <<>> /\ Head(ds) = "0" THEN StripZeros(Tail(ds)) ELSE ds

\* a > b for two natural numbers written without leading zeros
RECURSIVE DigitsGreater(_, _)
DigitsGreater(a, b) ==
    IF Len(a) # Len(b) THEN Len(a) > Len(b)
    ELSE IF a = <<>> THEN FALSE
    ELSE IF Head(a) # Head(b) THEN DigitVal(Head(a)) > DigitVal(Head(b))
    ELSE DigitsGreater(Tail(a), Tail(b))

\* a number: sign, digits of the integer part, digits of the fraction
Finite(neg, int, frac) == [k |-> "finite", neg |-> neg, int |-> StripZeros(int), frac |-> frac]
Special(k) == [k |-> k, neg |-> FALSE, int |-> <<>>, frac |-> <<>>]

\* the int whose decimal literal is given
int_of(literal) ==
    IF At(literal, 1) = "-" THEN Finite(TRUE, Tail(literal), <<>>)
    ELSE Finite(FALSE, literal, <<>>)

\* largest exponent that is applied digit by digit: a larger one gives the
\* same class of result (zero, or a value no time_t holds)
ExponentCap == 40

\* mantissa int.frac times ten to the e: the decimal point moved by e places
Shift(neg, int, frac, e) ==
    LET all == int \o frac
        point == Len(int) + e
    IN  IF point <= 0 THEN Finite(neg, <<>>, Zeros(0 - point) \o all)
        ELSE IF point >= Len(all) THEN Finite(neg, all \o Zeros(point - Len(all)), <<>>)
        ELSE Finite(neg, SubSeq(all, 1, point), SubSeq(all, point + 1, Len(all)))

\* whether every "_" of s stands between two digits
UnderscoresOk(s) ==
    \A i \in 1..Len(s) : s[i] = "_" => IsDigit(At(s, i - 1)) /\ IsDigit(At(s, i + 1))

Inf == <<"i","n","f">>
Infinity == <<"i","n","f","i","n","i","t","y">>
NaN == <<"n","a","n">>

\* the exponent written with these digits, capped
Exponent(ds) ==
    IF Len(StripZeros(ds)) > 2 THEN ExponentCap
    ELSE IF NatOf(ds) > ExponentCap THEN ExponentCap ELSE NatOf(ds)

\* the end of a float literal: nothing, or e or E, an optional sign, digits
float_exponent(neg, int, frac, t) ==
    IF int \o frac = <<>> THEN Special("ValueError")
    ELSE IF t = <<>> THEN Shift(neg, int, frac, 0)
    ELSE IF ~HasChar(t, 1, {"e", "E"}) THEN Special("ValueError")
    ELSE IF Len(t) = 2 /\ HasDigits(t, 2, Len(t[2].s))
    THEN Shift(neg, int, frac, Exponent(t[2].s))
    ELSE IF Len(t) = 3 /\ HasChar(t, 2, {"+", "-"}) /\ HasDigits(t, 3, Len(t[3].s))
    THEN Shift(neg, int, frac,
               IF t[2].s = <<"-">> THEN 0 - Exponent(t[3].s) ELSE Exponent(t[3].s))
    ELSE Special("ValueError")

\* after the integer digits: an optional "." and fraction digits
float_fraction(neg, int, t) ==
    IF HasChar(t, 1, {"."})
    THEN IF HasDigits(t, 2, Len(t[2].s))
         THEN float_exponent(neg, int, t[2].s, Drop(t, 2))
         ELSE float_exponent(neg, int, <<>>, Drop(t, 1))
    ELSE float_exponent(neg, int, <<>>, t)

\* after the sign: inf, infinity or nan in any case, or a decimal literal,
\* in which a "_" may stand between two digits
float_unsigned(neg, u) ==
    IF Lower(u) \in {Inf, Infinity} THEN Special("inf")
    ELSE IF Lower(u) = NaN THEN Special("nan")
    ELSE IF ~UnderscoresOk(u) THEN Special("ValueError")
    ELSE IF IsDigit(At(Remove(u, "_"), 1))
    THEN float_fraction(neg, Tokens(Remove(u, "_"))[1].s, Drop(Tokens(Remove(u, "_")), 1))
    ELSE float_fraction(neg, <<>>, Tokens(Remove(u, "_")))

float_signed(t) ==
    IF At(t, 1) \in {"+", "-"} THEN float_unsigned(At(t, 1) = "-", Tail(t))
    ELSE float_unsigned(FALSE, t)

\* float(s): surrounding whitespace, a sign, then the rest
float(s) == float_signed(Strip(s))

\* 2^63 - 1 and 2^63: the largest time_t and the magnitude of the smallest
TimeTMax == <<"9","2","2","3","3","7","2","0","3","6","8","5","4","7","7","5","8","0","7">>
TimeTMin == <<"9","2","2","3","3","7","2","0","3","6","8","5","4","7","7","5","8","0","8">>
\* the largest time localtime() converts (the year still fits an int), in
\* seconds since the epoch, and the magnitude of the smallest; both the UTC
\* time and the local time must lie within them
LocaltimeMax == <<"6","7","7","6","8","0","3","6","1","9","1","6","7","6","7","9","9">>
LocaltimeMin == <<"6","7","7","6","8","0","4","0","6","0","9","7","4","0","8","0","0">>
\* n as exactly `width` digits
RECURSIVE DigitsOf(_, _)
DigitsOf(n, width) ==
    IF width = 0 THEN <<>>
    ELSE DigitsOf(n \div 10, width - 1) \o <<Digit[(n % 10) + 1]>>

\* the number `limit` plus delta, for a delta of less than a day either way
\* (it changes the last six digits of these limits only)
Moved(limit, delta) ==
    LET cut == Len(limit) - 6
    IN  SubSeq(limit, 1, cut)
        \o DigitsOf(NatOf(SubSeq(limit, cut + 1, Len(limit))) + delta, 6)

\* numbers of more digits than this lie outside the years 1 to 9999
ExactDigits == 12

\* days and seconds of a natural number of seconds of at most ExactDigits digits
RECURSIVE DaysSeconds(_)
DaysSeconds(ds) ==
    IF ds = <<>> THEN <<0, 0>>
    ELSE LET prev == DaysSeconds(SubSeq(ds, 1, Len(ds) - 1))
             x == prev[2] * 10 + DigitVal(ds[Len(ds)])
         IN  <<prev[1] * 10 + (x \div SecondsPerDay), x % SecondsPerDay>>

\* the fraction digits as microseconds, rounded on the seventh digit
Microseconds(frac) ==
    NatOf(SubSeq(frac \o Zeros(6), 1, 6))
    + (IF Len(frac) >= 7 /\ DigitVal(frac[7]) >= 5 THEN 1 ELSE 0)

Million == 1000000

\* the datetime of ordinal d, second s of the day and microsecond us, when
\* it and the time a day before it lie in the years 1 to 9999
checked_datetime(d, s, us) ==
    IF d >= 2 /\ d <= MaxOrdinal THEN datetime(d, s, us) ELSE Raises("ValueError")

\* the local time `local` seconds after the midnight that starts the day
\* `days` days after the epoch
local_datetime(days, local, us) ==
    checked_datetime(EpochOrdinal + days + (local \div SecondsPerDay),
                     local % SecondsPerDay, us)

\* the floor of the signed value, in seconds and microseconds, moved to the
\* local timezone
floor_datetime(neg, days, secs, us, offset) ==
    IF ~neg THEN local_datetime(days, secs + offset, us)
    ELSE IF us = 0 THEN local_datetime(0 - days, offset - secs, 0)
    ELSE local_datetime(0 - days, offset - secs - 1, Million - us)

\* the microseconds rounded up to a whole second are carried
carried_datetime(neg, ds, us, offset) ==
    IF us = Million THEN floor_datetime(neg, ds[1], ds[2] + 1, 0, offset)
    ELSE floor_datetime(neg, ds[1], ds[2], us, offset)

\* datetime.fromtimestamp(x), x a number or inf or nan, in the local timezone
\* (a zone at a fixed `offset` in seconds from UTC): OverflowError when x fits
\* no time_t, OSError when localtime() cannot convert it, ValueError when the
\* local time or the time a day before it (the probe for a fold) lies
\* outside the years 1 to 9999.
fromtimestamp(x, offset) ==
    IF x.k = "nan" THEN Raises("ValueError")
    ELSE IF x.k = "inf" THEN Raises("OverflowError")
    ELSE IF DigitsGreater(x.int, IF x.neg THEN TimeTMin ELSE TimeTMax)
    THEN Raises("OverflowError")
    ELSE IF DigitsGreater(x.int,
                IF x.neg THEN Moved(LocaltimeMin, IF offset < 0 THEN offset ELSE 0)
                ELSE Moved(LocaltimeMax, IF offset > 0 THEN 0 - offset ELSE 0))
    THEN Raises("OSError")
    ELSE IF Len(x.int) > ExactDigits THEN Raises("ValueError")
    ELSE carried_datetime(x.neg, DaysSeconds(x.int), Microseconds(x.frac), offset)

----------------------------------------------------------------------------
(* DuplicateReporter.parse_last_report *)

\* a variant of falsy for which the int 0 is a value like any other
falsy_not_zero(last_report) ==
    \/ last_report.t = "null"
    \/ last_report.t = "str" /\ last_report.s = <<>>

\* not last_report: None, the int 0 and the empty string are falsy
falsy(last_report) ==
    \/ last_report.t = "null"
    \/ last_report.t = "int" /\ StripZeros(int_of(last_report.s).int) = <<>>
    \/ last_report.t = "str" /\ last_report.s = <<>>

\* the clean_date parse_last_report hands to strptime
offset_removed(clean) ==
    IF Contains(clean, "+") \/ Contains(Tail_k(clean, 6), "-")
    THEN SplitFirst(SplitFirst(clean, "+"), "-")
    ELSE clean

clean_date(s) == offset_removed(ReplaceChar(SplitFirst(s, "."), "T", " "))

\* the body of the try block: a datetime, or the exception raised
timestamp_of(x, offset) ==
    IF x.k = "ValueError" THEN Raises("ValueError") ELSE fromtimestamp(x, offset)

try_parse(last_report, offset) ==
    IF last_report.t = "int"
    THEN fromtimestamp(int_of(last_report.s), offset)
    ELSE IF Contains(last_report.s, "T")
    THEN strptime(clean_date(last_report.s))
    ELSE timestamp_of(float(last_report.s), offset)

\* the exceptions the except clause catches
Caught == {"ValueError", "TypeError"}

\* whether parse_last_report prints its warning
parse_warns(last_report, offset) ==
    ~falsy(last_report) /\ try_parse(last_report, offset).k \in Caught

\* the except clause: None for the exceptions it catches
except_caught(r) == IF r.k \in Caught THEN None ELSE r

\* parse_last_report: a datetime, None, or the exception that escapes
parse_last_report(last_report, offset) ==
    IF falsy(last_report) THEN None
    ELSE except_caught(try_parse(last_report, offset))

----------------------------------------------------------------------------
(* The inputs: what the API can return for system_mac_address and           *)
(* last_report, and the lists of computers main is run on                   *)

MacColonUpper ==
    <<"A","A",":","B","B",":","C","C",":","D","D",":","E","E",":","F","F">>
MacPlainLower == <<"a","a","b","b","c","c","d","d","e","e","f","f">>
MacHyphen ==
    <<"a","a","-","b","b","-","c","c","-","d","d","-","e","e","-","f","f">>
MacPadded == <<" ","A","A","B","B","C","C","D","D","E","E","F","F"," ">>
MacOther ==
    <<"1","1","-","2","2","-","3","3","-","4","4","-","5","5","-","6","6">>
MacShort == <<"1","2",":","3","4">>
MacBlank == <<" "," "," ">>
MacLong == <<"a","a","b","b","c","c","d","d","e","e","f","f","0","0">>
MacNonHex ==
    <<"z","z",":","z","z",":","z","z",":","z","z",":","z","z",":","z","z">>
MacSeparators == <<":","-",":">>
MacInnerSpace == <<"a","a"," ","b","b"," ","c","c"," ","d","d">>
MacHyphenBlank == <<"-"," ","a","a","b","b","c","c","d","d","e","e","f">>

IsoJan ==
    <<"2","0","2","4","-","0","1","-","1","0","T","1","0",":","0","0",":",
      "0","0">>
IsoFeb ==
    <<"2","0","2","4","-","0","2","-","0","1","T","1","0",":","0","0",":",
      "0","0">>
IsoMar ==
    <<"2","0","2","4","-","0","3","-","0","1","T","1","0",":","0","0",":",
      "0","0">>
IsoJanPlus ==
    <<"2","0","2","4","-","0","1","-","1","0","T","1","0",":","0","0",":",
      "0","0","+","0","5",":","0","0">>
IsoJanMinus ==
    <<"2","0","2","4","-","0","1","-","1","0","T","1","0",":","0","0",":",
      "0","0","-","0","5",":","0","0">>
IsoJanFractionPlus ==
    <<"2","0","2","4","-","0","1","-","1","0","T","1","0",":","0","0",":",
      "0","0",".","1","2","3","+","0","5",":","0","0">>
IsoJanZulu ==
    <<"2","0","2","4","-","0","1","-","1","0","T","1","0",":","0","0",":",
      "0","0","Z">>
IsoYearOne ==
    <<"0","0","0","1","-","0","1","-","0","1","T","0","0",":","0","0",":",
      "0","0">>
IsoNoSuchDay ==
    <<"2","0","2","4","-","0","2","-","3","0","T","1","0",":","0","0",":",
      "0","0">>
EpochJan == <<"1","7","0","4","8","8","0","8","0","0">>
EpochJanHalf == <<"1","7","0","4","8","8","0","8","0","0",".","5">>
EpochYear10000 == <<"2","5","3","4","0","2","3","0","0","8","0","0">>
EpochHuge ==
    <<"1","0","0","0","0","0","0","0","0","0","0","0","0","0","0","0","0",
      "0","0","0","0">>
NotANumber == <<"a","b","c">>
MinusOne == <<"-","1">>
Zero == <<"0">>

\* addresses of one device written three ways, and of another device
ValidMacs == {Mac(MacColonUpper), Mac(MacPlainLower), Mac(MacOther)}

AllMacs ==
    {NoMac, Mac(<<>>), Mac(MacBlank), Mac(MacShort), Mac(MacLong),
     Mac(MacSeparators), Mac(MacInnerSpace), Mac(MacHyphenBlank), Mac(MacNonHex),
     Mac(MacColonUpper), Mac(MacPlainLower), Mac(MacHyphen), Mac(MacPadded),
     Mac(MacOther)}

\* report dates that parse, in three different months, and a missing one
DatedReports ==
    {NullReport, StrReport(IsoJan), StrReport(IsoFeb), StrReport(IsoMar)}

AllReports ==
    {NullReport, IntReport(Zero), IntReport(EpochJan), IntReport(MinusOne),
     IntReport(EpochYear10000), IntReport(EpochHuge),
     StrReport(<<>>), StrReport(IsoJan), StrReport(IsoFeb),
     StrReport(IsoJanPlus), StrReport(IsoJanMinus), StrReport(IsoJanFractionPlus),
     StrReport(IsoJanZulu), StrReport(IsoYearOne), StrReport(IsoNoSuchDay),
     StrReport(EpochJan), StrReport(EpochJanHalf), StrReport(EpochYear10000),
     StrReport(NotANumber), StrReport(Inf), StrReport(NaN)}

\* the local timezones: UTC, five hours behind it, one hour ahead of it
TzOffsets == {0, 0 - 18000, 3600}

\* the lists of n computers with these addresses and report dates; client_id
\* is the position in the list, so that every record is told from the others
Lists(macs, reports, n) ==
    {[i \in 1..n |-> [client_id |-> i,
                      system_mac_address |-> m[i],
                      last_report |-> r[i]]] :
        m \in [1..n -> macs], r \in [1..n -> reports]}

\* the command lines: --no-email, --email-only and --export-csv given or not
Args == [no_email : BOOLEAN, email_only : BOOLEAN, export_csv : BOOLEAN]

\* the command line with --no-email alone
Quiet == [no_email |-> TRUE, email_only |-> FALSE, export_csv |-> FALSE]

\* the families of runs: duplicates with dated reports, every shape of
\* last_report on one device, every shape of address
Families ==
    {[macs |-> ValidMacs, reports |-> DatedReports, zones |-> {0}, max |-> MaxComputers],
     [macs |-> {Mac(MacPlainLower)}, reports |-> AllReports, zones |-> TzOffsets,
      max |-> MaxParsed],
     [macs |-> AllMacs, reports |-> {NullReport}, zones |-> {0}, max |-> MaxComputers]}

\* every last_report of the model
Reports == DatedReports \cup AllReports

\* self.parse_last_report(computer.get('last_report')) for every last_report
\* and timezone of the model, evaluated once: the date returned (or the
\* exception that escapes) and whether the warning is printed
last_report_date ==
    [r \in Reports, z \in TzOffsets |-> parse_last_report(r, z)]
last_report_warns ==
    [r \in Reports, z \in TzOffsets |-> parse_warns(r, z)]

----------------------------------------------------------------------------
(* DuplicateReporter.identify_devices_to_remove *)

\* the key of the sort: x[1] if x[1] is not None else datetime.min
sort_key(entry) == IF entry.date.k = "None" THEN datetime_min ELSE entry.date

\* a variant of insert_position that leaves the entries in input order
insert_position_end(sorted, entry) == Len(sorted) + 1

\* a variant of insert_position that puts entry before the entries with an
\* equal key (a sort that is not stable)
insert_position_unstable(sorted, entry) ==
    IF \A i \in 1..Len(sorted) : Before(sort_key(entry), sort_key(sorted[i]))
    THEN Len(sorted) + 1
    ELSE CHOOSE i \in 1..Len(sorted) :
            /\ ~Before(sort_key(entry), sort_key(sorted[i]))
            /\ \A j \in 1..(i - 1) : Before(sort_key(entry), sort_key(sorted[j]))

\* where list.sort(reverse=True) puts entry among the entries already in
\* order: after every entry whose key is not smaller (the sort is stable)
insert_position(sorted, entry) ==
    LET smaller == {i \in 1..Len(sorted) : Before(sort_key(sorted[i]), sort_key(entry))}
    IN  IF smaller = {} THEN Len(sorted) + 1
        ELSE CHOOSE i \in smaller : \A j \in smaller : i <= j

\* entry put at position p of the entries already in order
insert_at(sorted, entry, p) ==
    SubSeq(sorted, 1, p - 1) \o <<entry>> \o SubSeq(sorted, p, Len(sorted))

insert_sorted(sorted, entry) == insert_at(sorted, entry, insert_position(sorted, entry))

\* computer_dates.sort(key=..., reverse=True)
RECURSIVE sort_newest_first(_)
sort_newest_first(entries) ==
    IF entries = <<>> THEN <<>>
    ELSE insert_sorted(sort_newest_first(SubSeq(entries, 1, Len(entries) - 1)),
                       entries[Len(entries)])

\* a variant of reason_for that leaves the address out of the reason
reason_for_no_address(mac_address) ==
    [text |-> "Duplicate MAC ", mac |-> <<>>, rest |-> ", older report date"]

\* f"Duplicate MAC {mac_address}, older report date"
reason_for(mac_address) ==
    [text |-> "Duplicate MAC ", mac |-> mac_address, rest |-> ", older report date"]

\* the last_report values of the first `upto` computers of a group for which
\* parse_last_report prints its warning
warned_in(cs, upto, offset) ==
    SelectSeq([i \in 1..upto |-> cs[i].last_report],
              LAMBDA r : last_report_warns[r, offset])

\* the computers whose parse_last_report raises, and the first of them
failing(dates) == {i \in 1..Len(dates) : dates[i].k \notin {"dt", "None"}}
first_of(S) == CHOOSE i \in S : \A j \in S : i <= j

\* the iteration in which parse_last_report raises for computer `first`
group_raises(cs, dates, first, offset) ==
    [raised |-> dates[first].k,
     entry |-> <<>>,
     to_remove |-> <<>>,
     warned |-> warned_in(cs, first - 1, offset)]

\* a variant of to_remove_of that takes computer_dates[0:], the keeper included
to_remove_all(mac_address, computer_dates) ==
    [i \in 1..Len(computer_dates) |->
        [computer |-> computer_dates[i].computer,
         reason |-> reason_for(mac_address)]]

\* a variant of to_remove_of that lists the computers after the keeper by
\* client_id, their order in the input
to_remove_input_order(mac_address, computer_dates) ==
    [i \in 1..(Len(computer_dates) - 1) |->
        [computer |->
            (CHOOSE e \in {computer_dates[j] : j \in 2..Len(computer_dates)} :
                Cardinality({j \in 2..Len(computer_dates) :
                    computer_dates[j].computer.client_id < e.computer.client_id})
                = i - 1).computer,
         reason |-> reason_for(mac_address)]]

\* for computer, date in to_remove: devices_to_remove.append((computer, reason))
to_remove_of(mac_address, computer_dates) ==
    [i \in 1..(Len(computer_dates) - 1) |->
        [computer |-> computer_dates[i + 1].computer,
         reason |-> reason_for(mac_address)]]

\* the iteration from the sorted computer_dates on: the keeper and the
\* computers to remove, when the group has more than one computer
group_sorted(mac_address, cs, computer_dates, offset) ==
    [raised |-> "",
     entry |-> <<[mac_address |-> mac_address,
                  computer_dates |-> computer_dates,
                  keeper |-> IF Len(computer_dates) > 1
                             THEN <<computer_dates[1]>> ELSE <<>>]>>,
     to_remove |-> IF Len(computer_dates) > 1
                   THEN to_remove_of(mac_address, computer_dates) ELSE <<>>,
     warned |-> warned_in(cs, Len(cs), offset)]

group_dated(mac_address, cs, dates, offset) ==
    IF failing(dates) # {}
    THEN group_raises(cs, dates, first_of(failing(dates)), offset)
    ELSE group_sorted(mac_address, cs,
            sort_newest_first([i \in 1..Len(cs) |-> [computer |-> cs[i], date |-> dates[i]]]),
            offset)

\* one iteration of the loop over duplicate_groups.items(): the exception
\* that escapes ("" when none does), the sorted computer_dates with the
\* keeper, the entries appended to devices_to_remove, the warnings printed
analyse_group(group, offset) ==
    group_dated(group.mac, group.computers,
        [i \in 1..Len(group.computers) |->
            last_report_date[group.computers[i].last_report, offset]],
        offset)

\* the results of the loop so far, after the iteration g
accumulate(acc, g) ==
    [raised |-> g.raised,
     devices_to_remove |-> acc.devices_to_remove \o g.to_remove,
     analysis |-> acc.analysis \o g.entry,
     warnings |-> acc.warnings \o g.warned]

\* the loop of identify_devices_to_remove over the groups still to analyse
RECURSIVE identify_from(_, _, _)
identify_next(groups, offset, acc) ==
    IF acc.raised # "" THEN acc ELSE identify_from(Tail(groups), offset, acc)

identify_from(groups, offset, acc) ==
    IF groups = <<>> THEN acc
    ELSE identify_next(groups, offset, accumulate(acc, analyse_group(Head(groups), offset)))

identify_devices_to_remove(groups, offset) ==
    identify_from(groups, offset,
        [raised |-> "", devices_to_remove |-> <<>>, analysis |-> <<>>, warnings |-> <<>>])

----------------------------------------------------------------------------
(* DuplicateReporter.generate_report and the report main builds under --email-only *)

\* date.isoformat() if date else 'Unknown': the date, the time of day, and
\* the microseconds when there are any
isoformat(date) ==
    IF date.k = "None" THEN [text |-> "Unknown"]
    ELSE [date |-> date.d, time |-> date.s,
          fraction |-> IF date.us = 0 THEN <<>> ELSE <<date.us>>]

\* sum(len(computers) for computers in duplicate_groups.values())
RECURSIVE total_duplicate_devices(_)
total_duplicate_devices(groups) ==
    IF groups = <<>> THEN 0
    ELSE Len(Head(groups).computers) + total_duplicate_devices(Tail(groups))

\* results['devices_to_keep'] after every group appended its device_to_keep
RECURSIVE devices_to_keep_of(_)
devices_to_keep_of(details) ==
    IF details = <<>> THEN <<>>
    ELSE Head(details).device_to_keep \o devices_to_keep_of(Tail(details))

\* results['devices_to_remove'] after every group appended its devices_to_remove
RECURSIVE devices_to_remove_of(_)
devices_to_remove_of(details) ==
    IF details = <<>> THEN <<>>
    ELSE Head(details).devices_to_remove \o devices_to_remove_of(Tail(details))

\* a variant of report_computer_dates that leaves the group in input order
report_computer_dates_unsorted(cs, offset) ==
    [i \in 1..Len(cs) |->
        [computer |-> cs[i], date |-> last_report_date[cs[i].last_report, offset]]]

\* generate_report: computer_dates of a group, parsed and sorted
report_computer_dates(cs, offset) ==
    sort_newest_first([i \in 1..Len(cs) |->
        [computer |-> cs[i], date |-> last_report_date[cs[i].last_report, offset]]])

\* generate_report: device_info, with the fields the computers of the model have
device_info(entry) ==
    [client_id |-> entry.computer.client_id,
     last_report |-> entry.computer.last_report,
     last_report_parsed |-> isoformat(entry.date)]

\* generate_report: group_detail after the loop over computer_dates; the
\* device_to_keep is the entry with i == 0, None (no entry) in an empty group
group_detail(mac_address, cs, computer_dates) ==
    [mac_address |-> mac_address,
     total_devices |-> Len(cs),
     device_to_keep |-> IF computer_dates = <<>> THEN <<>>
                        ELSE <<device_info(computer_dates[1])>>,
     devices_to_remove |-> [i \in 1..(Len(computer_dates) - 1) |->
                               device_info(computer_dates[i + 1])]]

\* generate_report: results['duplicate_groups_detail'] after the loop over the groups
report_details(groups, offset) ==
    [g \in 1..Len(groups) |->
        group_detail(groups[g].mac, groups[g].computers,
                     report_computer_dates(groups[g].computers, offset))]

\* generate_report: results once the details are known
report_results(groups, details) ==
    [total_computers_analyzed |-> 0,
     total_duplicate_groups |-> Len(groups),
     total_duplicate_devices |-> total_duplicate_devices(groups),
     devices_to_keep |-> devices_to_keep_of(details),
     devices_to_remove |-> devices_to_remove_of(details),
     duplicate_groups_detail |-> details]

generate_report(to_remove, groups, offset) ==
    IF to_remove = <<>> /\ groups = <<>>
    THEN report_results(groups, <<>>)
    ELSE report_results(groups, report_details(groups, offset))

\* main under --email-only: computer_dates of a group, parsed and sorted
email_computer_dates(cs, offset) ==
    sort_newest_first([i \in 1..Len(cs) |->
        [computer |-> cs[i], date |-> last_report_date[cs[i].last_report, offset]]])

\* main under --email-only: device_info
email_device_info(entry) ==
    [client_id |-> entry.computer.client_id,
     last_report |-> entry.computer.last_report,
     last_report_parsed |-> isoformat(entry.date)]

\* main under --email-only: group_detail after the loop over computer_dates
email_group_detail(mac_address, cs, computer_dates) ==
    [mac_address |-> mac_address,
     total_devices |-> Len(cs),
     device_to_keep |-> IF computer_dates = <<>> THEN <<>>
                        ELSE <<email_device_info(computer_dates[1])>>,
     devices_to_remove |-> [i \in 1..(Len(computer_dates) - 1) |->
                               email_device_info(computer_dates[i + 1])]]

\* main under --email-only: results['duplicate_groups_detail']
email_details(groups, offset) ==
    [g \in 1..Len(groups) |->
        email_group_detail(groups[g].mac, groups[g].computers,
                           email_computer_dates(groups[g].computers, offset))]

\* main under --email-only: results, which has no total_computers_analyzed
email_results(groups, details) ==
    [total_duplicate_groups |-> Len(groups),
     total_duplicate_devices |-> total_duplicate_devices(groups),
     devices_to_keep |-> devices_to_keep_of(details),
     devices_to_remove |-> devices_to_remove_of(details),
     duplicate_groups_detail |-> details]

email_only_results(groups, offset) == email_results(groups, email_details(groups, offset))

----------------------------------------------------------------------------
(* main: fetch, find_duplicates, identify_devices_to_remove, report *)

\* a variant of send_email that does not ask whether SMTP is configured
send_email_unless_disabled(a, configured) == ~a.no_email

\* send_email = not args.no_email and email_reporter.smtp_configured
send_email(a, configured) == ~a.no_email /\ configured

\* what export_report_to_csv can return to main: nothing when --export-csv
\* was not given (False here), else True or False
exports(a) == IF a.export_csv THEN BOOLEAN ELSE {FALSE}

\* no value yet: the assignment was not reached
Unset == "unset"

\* the body of a response: a JSON list of computers, or something else
ListBody(items) == [kind |-> "list", items |-> items]

\* no run before this one
NoRun == [ran |-> FALSE]

\* main from the fetched list to the return of identify_devices_to_remove
Init ==
    /\ \E f \in Families :
          /\ tz \in f.zones
          /\ \E n \in 0..f.max : computers \in Lists(f.macs, f.reports, n)
    /\ args = Quiet
    /\ smtp_configured = FALSE
    /\ pc = "fetched"
    /\ page = 1
    /\ depth = 0
    /\ limited = FALSE
    /\ received = <<ListBody(computers)>>
    /\ duplicate_groups = <<>>
    /\ devices_to_remove = <<>>
    /\ analysis = <<>>
    /\ warnings = <<>>
    /\ results = Unset
    /\ csv_file = Unset
    /\ email_sent = Unset
    /\ previous = NoRun

\* if not computers: sys.exit(0)
NoComputers ==
    /\ pc = "fetched"
    /\ computers = <<>>
    /\ pc' = "exit0"
    /\ UNCHANGED <<computers, fetch_vars, given_vars, found_vars, report_vars>>

\* duplicate_groups = reporter.find_duplicates(computers)
FindDuplicates ==
    /\ pc = "fetched"
    /\ computers # <<>>
    /\ duplicate_groups' = find_duplicates(computers)
    /\ pc' = "grouped"
    /\ UNCHANGED <<computers, fetch_vars, given_vars, report_vars,
                   devices_to_remove, analysis, warnings>>

\* if not duplicate_groups: sys.exit(0)
NoDuplicates ==
    /\ pc = "grouped"
    /\ duplicate_groups = <<>>
    /\ pc' = "exit0"
    /\ UNCHANGED <<computers, fetch_vars, given_vars, found_vars, report_vars>>

\* what main holds once identify_devices_to_remove returned or raised; an
\* exception that escapes it reaches main's `except Exception`: sys.exit(1)
Identified(result) ==
    /\ analysis' = result.analysis
    /\ warnings' = result.warnings
    /\ devices_to_remove' =
          IF result.raised = "" THEN result.devices_to_remove ELSE devices_to_remove
    /\ pc' = IF result.raised = "" THEN "identified" ELSE "exit1"

\* devices_to_remove = reporter.identify_devices_to_remove(duplicate_groups)
IdentifyDevicesToRemove ==
    /\ pc = "grouped"
    /\ duplicate_groups # <<>>
    /\ Identified(identify_devices_to_remove(duplicate_groups, tz))
    /\ UNCHANGED <<computers, fetch_vars, given_vars, report_vars, duplicate_groups>>

\* the warnings parse_last_report prints when the groups are parsed again
RECURSIVE warned_again(_, _)
warned_again(groups, offset) ==
    IF groups = <<>> THEN <<>>
    ELSE warned_in(Head(groups).computers, Len(Head(groups).computers), offset)
            \o warned_again(Tail(groups), offset)

\* results = reporter.generate_report(devices_to_remove, duplicate_groups), or
\* the dictionary main builds itself under --email-only
GenerateReport ==
    /\ pc = "identified"
    /\ results' = IF args.email_only
                  THEN email_only_results(duplicate_groups, tz)
                  ELSE generate_report(devices_to_remove, duplicate_groups, tz)
    /\ warnings' = warnings \o warned_again(duplicate_groups, tz)
    /\ pc' = "reported"
    /\ UNCHANGED <<computers, fetch_vars, given_vars, duplicate_groups,
                   devices_to_remove, analysis, csv_file, email_sent>>

\* csv_file = None, and args.csv_filename once export_report_to_csv, called
\* under --export-csv, returned True; it returns False when writing failed
ExportReportToCsv ==
    /\ pc = "reported"
    /\ \E written \in exports(args) :
          csv_file' = IF written THEN "csv_filename" ELSE "None"
    /\ pc' = "exported"
    /\ UNCHANGED <<computers, fetch_vars, given_vars, found_vars, results, email_sent>>

\* if send_email: email_sent = email_reporter.send_report_email(results,
\* csv_file), True when the message went out and False when sending failed;
\* then the summary, and main returns
SendReportEmail ==
    /\ pc = "exported"
    /\ IF send_email(args, smtp_configured)
          THEN \E sent \in {"True", "False"} : email_sent' = sent
          ELSE email_sent' = email_sent
    /\ pc' = "done"
    /\ UNCHANGED <<computers, fetch_vars, given_vars, found_vars, results, csv_file>>

Next ==
    \/ NoComputers
    \/ FindDuplicates
    \/ NoDuplicates
    \/ IdentifyDevicesToRemove

Spec == Init /\ [][Next]_vars

\* main from the fetched list to its end, under every command line and with
\* SMTP configured or not
ReportInit ==
    /\ \E n \in 0..MaxOptioned :
          computers \in Lists({Mac(MacPlainLower), Mac(MacOther)}, DatedReports, n)
    /\ tz = 0
    /\ args \in Args
    /\ smtp_configured \in BOOLEAN
    /\ pc = "fetched"
    /\ page = 1
    /\ depth = 0
    /\ limited = FALSE
    /\ received = <<ListBody(computers)>>
    /\ duplicate_groups = <<>>
    /\ devices_to_remove = <<>>
    /\ analysis = <<>>
    /\ warnings = <<>>
    /\ results = Unset
    /\ csv_file = Unset
    /\ email_sent = Unset
    /\ previous = NoRun

ReportNext ==
    \/ NoComputers
    \/ FindDuplicates
    \/ NoDuplicates
    \/ IdentifyDevicesToRemove
    \/ GenerateReport
    \/ ExportReportToCsv
    \/ SendReportEmail

ReportSpec == ReportInit /\ [][ReportNext]_vars

-----------------------------------------------------------------------------
\* WatchmanAPI: _make_request and get_all_computers

\* per_page = 100
per_page == 100

\* the calls of _make_request the interpreter lets one call nest before it
\* raises RecursionError (sys.getrecursionlimit() frames in CPython)
RecursionLimit == 3

\* the pages the server holds at most: only the pages before this one are full
MaxPages == 3

\* the lengths of the lists the server answers with
PageSizes == {0, 1, per_page - 1, per_page, per_page + 1}

\* the i-th computer of the page the server sends for `page`
Served(p, i) ==
    [client_id |-> (p - 1) * (per_page + 1) + i, system_mac_address |-> NoMac,
     last_report |-> NullReport]

\* what response.json() can be for a request of page p: a list of computers,
\* a JSON object, or null
Bodies(p) ==
    {ListBody([i \in 1..n |-> Served(p, i)]) : n \in PageSizes}
        \cup {[kind |-> "object", items |-> <<>>], [kind |-> "null", items |-> <<>>]}

\* not response or not isinstance(response, list)
no_page(response) == response.kind # "list" \/ response.items = <<>>

\* a variant of last_page that also stops on a page of per_page records
last_page_inclusive(response) == Len(response.items) <= per_page

\* len(response) < per_page
last_page(response) == Len(response.items) < per_page

\* get_all_computers breaks out of its loop on this response
stops_on(response) == no_page(response) \/ last_page(response)

\* computers.extend(response), which a response that is no page never reaches
extended(list, response) == IF no_page(response) THEN list ELSE list \o response.items

\* a variant of retry_depth that retries in the frame it is in
retry_in_place(d) == d

\* return self._make_request(endpoint, method, params, data): one more frame
retry_depth(d) == d + 1

FetchInit ==
    /\ pc = "fetching"
    /\ computers = <<>>
    /\ page = 1
    /\ depth = 0
    /\ limited = FALSE
    /\ received = <<>>
    /\ tz = 0
    /\ args = Quiet
    /\ smtp_configured = FALSE
    /\ duplicate_groups = <<>>
    /\ devices_to_remove = <<>>
    /\ analysis = <<>>
    /\ warnings = <<>>
    /\ results = Unset
    /\ csv_file = Unset
    /\ email_sent = Unset
    /\ previous = NoRun

\* the server starts to answer 429 to every request
ServerKeepsLimiting ==
    /\ pc = "fetching"
    /\ ~limited
    /\ limited' = TRUE
    /\ UNCHANGED <<computers, pc, page, depth, received, given_vars, found_vars,
                   report_vars>>

\* response.status_code == 429: sleep, then call _make_request again from
\* inside the call; past the interpreter's limit the call raises
\* RecursionError, which reaches main's `except Exception`: sys.exit(1)
RateLimited ==
    /\ pc = "fetching"
    /\ IF depth < RecursionLimit
          THEN depth' = retry_depth(depth) /\ pc' = pc
          ELSE depth' = depth /\ pc' = "exit1"
    /\ UNCHANGED <<computers, page, limited, received, given_vars, found_vars,
                   report_vars>>

\* the request raises RequestException (no connection, an error status from
\* raise_for_status, a body that is no JSON): sys.exit(1)
RequestFails ==
    /\ pc = "fetching"
    /\ ~limited
    /\ pc' = "exit1"
    /\ UNCHANGED <<computers, fetch_vars, given_vars, found_vars, report_vars>>

\* one turn of the loop of get_all_computers on the response _make_request
\* returned
Turn(response) ==
    /\ received' = Append(received, response)
    /\ computers' = extended(computers, response)
    /\ page' = IF stops_on(response) THEN page ELSE page + 1
    /\ pc' = IF stops_on(response) THEN "fetched" ELSE "fetching"
    /\ depth' = 0

\* the server answers the request for `page` with a body
PageReceived ==
    /\ pc = "fetching"
    /\ ~limited
    /\ \E response \in Bodies(page) :
          /\ Len(response.items) >= per_page => page < MaxPages
          /\ Turn(response)
    /\ UNCHANGED <<limited, given_vars, found_vars, report_vars>>

FetchNext ==
    \/ ServerKeepsLimiting
    \/ RateLimited
    \/ RequestFails
    \/ PageReceived

\* every request is answered or fails, and the sleep of a retry ends
FetchSpec == FetchInit /\ [][FetchNext]_vars /\ WF_vars(FetchNext)

-----------------------------------------------------------------------------
\* find_duplicates and identify_devices_to_remove run twice on one list

\* longest list of computers in the runs that are repeated
MaxRerun == 2

\* one device whose last_report comes as null, as epoch seconds or as a string
RerunReports == {NullReport, IntReport(EpochJan), StrReport(IsoJan)}

\* what a run of the two functions left behind, and the timezone it ran in
Outcome ==
    [ran |-> TRUE, tz |-> tz, pc |-> pc, duplicate_groups |-> duplicate_groups,
     analysis |-> analysis, devices_to_remove |-> devices_to_remove]

TwiceInit ==
    /\ tz \in TzOffsets
    /\ \E n \in 0..MaxRerun : computers \in Lists({Mac(MacPlainLower)}, RerunReports, n)
    /\ args = Quiet
    /\ smtp_configured = FALSE
    /\ pc = "fetched"
    /\ page = 1
    /\ depth = 0
    /\ limited = FALSE
    /\ received = <<ListBody(computers)>>
    /\ duplicate_groups = <<>>
    /\ devices_to_remove = <<>>
    /\ analysis = <<>>
    /\ warnings = <<>>
    /\ results = Unset
    /\ csv_file = Unset
    /\ email_sent = Unset
    /\ previous = NoRun

\* the two functions are called again on the same list, in a process whose
\* local timezone is whatever its environment says
RunAgain ==
    /\ pc \in {"exit0", "exit1", "identified"}
    /\ previous = NoRun
    /\ previous' = Outcome
    /\ tz' \in TzOffsets
    /\ pc' = "fetched"
    /\ duplicate_groups' = <<>>
    /\ devices_to_remove' = <<>>
    /\ analysis' = <<>>
    /\ warnings' = <<>>
    /\ UNCHANGED <<computers, fetch_vars, args, smtp_configured, report_vars>>

TwiceNext ==
    \/ NoComputers
    \/ FindDuplicates
    \/ NoDuplicates
    \/ IdentifyDevicesToRemove
    \/ RunAgain

TwiceSpec == TwiceInit /\ [][TwiceNext]_vars

----------------------------------------------------------------------------
(* Properties of the classification *)

\* identify_devices_to_remove returned to main
Returned == pc = "identified"

\* the entries of devices_to_remove contributed for the group of this address
RemovedOf(mac) == SelectSeq(devices_to_remove, LAMBDA e : e.reason.mac = mac)

\* the elements of a sequence
Range(s) == {s[i] : i \in 1..Len(s)}

\* a timestamp as the ordering counts it: Unknown is the earliest instant
Instant(date) == IF date.k = "None" THEN datetime_min ELSE date

\* the parsed last_report of a computer
Parsed(computer) == last_report_date[computer.last_report, tz]

\* C1: for every duplicate group of size N >= 2 that find_duplicates produced,
\* the classification identify_devices_to_remove returns has exactly one kept
\* record and N-1 entries marked for removal, the kept record and the removed
\* ones are the members of the group, and the kept one is not among the removed.
C1_OneKeptRestRemoved ==
    Returned =>
        /\ Len(analysis) = Len(duplicate_groups)
        /\ \A e \in Range(devices_to_remove) :
              \E g \in Range(duplicate_groups) : e.reason.mac = g.mac
        /\ \A g \in 1..Len(duplicate_groups) :
              /\ Len(duplicate_groups[g].computers) >= 2
              /\ analysis[g].mac_address = duplicate_groups[g].mac
              /\ Len(analysis[g].keeper) = 1
              /\ Len(RemovedOf(duplicate_groups[g].mac))
                    = Len(duplicate_groups[g].computers) - 1
              /\ Cardinality({e.computer : e \in Range(RemovedOf(duplicate_groups[g].mac))})
                    = Len(duplicate_groups[g].computers) - 1
              /\ analysis[g].keeper[1].computer
                    \notin {e.computer : e \in Range(RemovedOf(duplicate_groups[g].mac))}
              /\ {analysis[g].keeper[1].computer}
                    \cup {e.computer : e \in Range(RemovedOf(duplicate_groups[g].mac))}
                    = Range(duplicate_groups[g].computers)

\* a group of three computers was classified: one kept, two removed
C1_Witness ==
    /\ Returned
    /\ \E g \in Range(duplicate_groups) : Len(g.computers) = 3
    /\ Len(devices_to_remove) = 2

\* C2: in every duplicate group the kept record has the maximum parsed
\* timestamp of the group, Unknown counted as the earliest instant: no member
\* of the group has a parsed last_report strictly later than the kept one's.
C2_KeptIsNewest ==
    Returned =>
        \A g \in 1..Len(duplicate_groups) :
            /\ analysis[g].keeper[1].computer \in Range(duplicate_groups[g].computers)
            /\ \A c \in Range(duplicate_groups[g].computers) :
                  ~Before(Instant(Parsed(analysis[g].keeper[1].computer)),
                          Instant(Parsed(c)))

\* the newest computer of a group of three is the last of the input and is
\* kept, the other two being strictly older
C2_Witness ==
    /\ Returned
    /\ \E g \in 1..Len(duplicate_groups) :
          /\ Len(duplicate_groups[g].computers) = 3
          /\ analysis[g].keeper[1].computer = duplicate_groups[g].computers[3]
          /\ \A i \in 1..2 :
                Before(Instant(Parsed(duplicate_groups[g].computers[i])),
                       Instant(Parsed(duplicate_groups[g].computers[3])))

\* C3: in every duplicate group, if at least one member has a known
\* (successfully parsed) timestamp, the kept record is one with a known
\* timestamp, whatever the known value and whatever the input order.
C3_UnknownNeverKeptOverKnown ==
    Returned =>
        \A g \in 1..Len(duplicate_groups) :
            (\E c \in Range(duplicate_groups[g].computers) : Parsed(c).k = "dt")
                => Parsed(analysis[g].keeper[1].computer).k = "dt"

\* a last_report string with 'T', no fractional part, and a '+' or '-' offset
\* after the seconds
CarriesOffset(last_report) ==
    /\ last_report.t = "str"
    /\ Contains(last_report.s, "T")
    /\ ~Contains(last_report.s, ".")
    /\ Len(last_report.s) = 25
    /\ last_report.s[20] \in {"+", "-"}

\* the same string without the offset
WithoutOffset(last_report) == StrReport(SubSeq(last_report.s, 1, 19))

\* C4: for a last_report string containing 'T' that carries a '+' or '-'
\* offset after the seconds (no fractional part), parse_last_report returns
\* the same value as for the same string without the offset.
C4_OffsetDropped ==
    Returned =>
        \A a \in Range(analysis) : \A e \in Range(a.computer_dates) :
            CarriesOffset(e.computer.last_report)
                => e.date = parse_last_report(WithoutOffset(e.computer.last_report), tz)

\* C5: parse_last_report never raises for any null, integer or string input:
\* an input that cannot be converted yields Unknown with a warning and the run
\* continues, so main never ends in its exception handler on account of a
\* last_report.
C5_NeverRaises == pc # "exit1"

\* an int literal small enough for the arithmetic below
Int32Limit == <<"2","1","4","7","0","0","0","0","0","0">>
Magnitude(literal) == StripZeros(IF At(literal, 1) = "-" THEN Tail(literal) ELSE literal)
FitsInt(literal) == ~DigitsGreater(Magnitude(literal), Int32Limit)
IntOf(literal) ==
    IF At(literal, 1) = "-" THEN 0 - NatOf(Tail(literal)) ELSE NatOf(literal)

\* the local date and time that many seconds after the epoch
SecondsAfterEpoch(n) ==
    datetime(EpochOrdinal + ((n + tz) \div SecondsPerDay), (n + tz) % SecondsPerDay, 0)

DistinctTimestamps(cs) ==
    /\ Len(cs) >= 3
    /\ \A i, j \in 1..Len(cs) : i # j => Instant(Parsed(cs[i])) # Instant(Parsed(cs[j]))

\* C8 as stated: for a group of three or more records with distinct
\* timestamps, the records marked for removal appear in the removal list in
\* their original relative input order.
C8_RemovedInInputOrder ==
    Returned =>
        \A g \in Range(duplicate_groups) :
            DistinctTimestamps(g.computers) =>
                \A i, j \in 1..Len(RemovedOf(g.mac)) :
                    i < j => RemovedOf(g.mac)[i].computer.client_id
                                < RemovedOf(g.mac)[j].computer.client_id

\* C8: for a group of three or more records with distinct timestamps, the
\* records marked for removal appear in the removal list from the newest to
\* the oldest, all of them older than the kept record (input Jan, Feb, Mar
\* keeps Mar and lists Feb before Jan).
C8_RemovedNewestFirst ==
    Returned =>
        \A g \in 1..Len(duplicate_groups) :
            DistinctTimestamps(duplicate_groups[g].computers) =>
                /\ \A i, j \in 1..Len(RemovedOf(duplicate_groups[g].mac)) :
                      i < j =>
                        Before(Instant(Parsed(RemovedOf(duplicate_groups[g].mac)[j].computer)),
                               Instant(Parsed(RemovedOf(duplicate_groups[g].mac)[i].computer)))
                /\ \A i \in 1..Len(RemovedOf(duplicate_groups[g].mac)) :
                      Before(Instant(Parsed(RemovedOf(duplicate_groups[g].mac)[i].computer)),
                             Instant(Parsed(analysis[g].keeper[1].computer)))

\* the input Jan, Feb, Mar on one address: Mar is kept, Feb is listed for
\* removal before Jan
C8_Witness ==
    /\ Returned
    /\ [i \in 1..Len(computers) |-> computers[i].last_report]
          = <<StrReport(IsoJan), StrReport(IsoFeb), StrReport(IsoMar)>>
    /\ Len(duplicate_groups) = 1
    /\ analysis[1].keeper[1].computer = computers[3]
    /\ [i \in 1..Len(devices_to_remove) |-> devices_to_remove[i].computer]
          = <<computers[2], computers[1]>>

\* an identity that is not Invalid: present, not empty, not whitespace only,
\* and of 12 characters once normalized
ValidIdentity(system_mac) ==
    /\ ~system_mac.null
    /\ \E i \in 1..Len(system_mac.s) : system_mac.s[i] \notin Whitespace
    /\ Len(normalized_mac(system_mac.s)) = 12

\* the normalized identity of every address of the model; <<>> for an
\* Invalid one
Identity ==
    [m \in AllMacs |-> IF ValidIdentity(m) THEN normalized_mac(m.s) ELSE <<>>]

\* the input records with a valid identity that normalizes to mac
Carriers(mac) ==
    {i \in 1..Len(computers) :
        /\ Identity[computers[i].system_mac_address] # <<>>
        /\ Identity[computers[i].system_mac_address] = mac}

\* C9: find_duplicates never places a record with an Invalid identity (absent,
\* empty, whitespace-only, or not 12 characters after normalization) into any
\* group, and every record in a returned group is an input record whose
\* normalized identity is valid, is the key of the group, and is shared by at
\* least two input records.
C9_GroupsHoldValidRecords ==
    \A g \in Range(duplicate_groups) : \A c \in Range(g.computers) :
        /\ c \in Range(computers)
        /\ Identity[c.system_mac_address] # <<>>
        /\ Identity[c.system_mac_address] = g.mac
        /\ Cardinality(Carriers(g.mac)) >= 2

\* find_duplicates returned a group although the input holds a record whose
\* address is present and not blank but not of 12 characters
C9_Witness ==
    /\ pc = "grouped"
    /\ duplicate_groups # <<>>
    /\ \E c \in Range(computers) :
          /\ ~c.system_mac_address.null
          /\ Strip(c.system_mac_address.s) # <<>>
          /\ Identity[c.system_mac_address] = <<>>

\* the records kept and the records marked for removal
Kept == {k.computer : k \in UNION {Range(a.keeper) : a \in Range(analysis)}}
Removed == {e.computer : e \in Range(devices_to_remove)}

\* C10: every group in the mapping find_duplicates returns has at least 2
\* members; an identity carried by exactly one valid record never appears as a
\* key, and that record never appears in any keep or remove list.
C10_NoSingletonGroups ==
    /\ \A g \in Range(duplicate_groups) : Len(g.computers) >= 2
    /\ \A i \in 1..Len(computers) :
          Carriers(Identity[computers[i].system_mac_address]) = {i}
          => /\ \A g \in Range(duplicate_groups) :
                    g.mac # Identity[computers[i].system_mac_address]
             /\ computers[i] \notin Kept
             /\ computers[i] \notin Removed

\* a device reported twice was classified while another device, reported
\* once, is in the input
C10_Witness ==
    /\ Returned
    /\ devices_to_remove # <<>>
    /\ \E i \in 1..Len(computers) :
          Carriers(Identity[computers[i].system_mac_address]) = {i}

\* one address written with ':' and upper case, bare in lower case, with '-',
\* and in upper case between blanks
Spellings == {Mac(MacColonUpper), Mac(MacPlainLower), Mac(MacHyphen), Mac(MacPadded)}

\* C11: records whose hardware addresses differ only in ':' / '-' separators,
\* letter case or surrounding whitespace are placed in the same group, under
\* the one identity they normalize to; of two such records with different
\* known timestamps the later-reporting one is kept and the earlier one is
\* removed.
C11_SpellingsShareAGroup ==
    /\ pc # "fetched" =>
          \A i, j \in 1..Len(computers) :
              (/\ i # j
               /\ computers[i].system_mac_address \in Spellings
               /\ computers[j].system_mac_address \in Spellings)
              => \E g \in Range(duplicate_groups) :
                    /\ g.mac = MacPlainLower
                    /\ computers[i] \in Range(g.computers)
                    /\ computers[j] \in Range(g.computers)
    /\ Returned =>
          \A g \in 1..Len(duplicate_groups) :
              \A i, j \in 1..Len(duplicate_groups[g].computers) :
                  (/\ Len(duplicate_groups[g].computers) = 2
                   /\ Parsed(duplicate_groups[g].computers[i]).k = "dt"
                   /\ Parsed(duplicate_groups[g].computers[j]).k = "dt"
                   /\ Before(Parsed(duplicate_groups[g].computers[i]),
                             Parsed(duplicate_groups[g].computers[j])))
                  => /\ analysis[g].keeper[1].computer = duplicate_groups[g].computers[j]
                     /\ [k \in 1..Len(RemovedOf(duplicate_groups[g].mac)) |->
                            RemovedOf(duplicate_groups[g].mac)[k].computer]
                          = <<duplicate_groups[g].computers[i]>>

\* Scenario A: the address with colons in upper case reporting in January,
\* then the bare address in lower case reporting in February; the second
\* record is kept and the first removed
C11_Witness ==
    /\ Returned
    /\ Len(computers) = 2
    /\ computers[1].system_mac_address = Mac(MacColonUpper)
    /\ computers[1].last_report = StrReport(IsoJan)
    /\ computers[2].system_mac_address = Mac(MacPlainLower)
    /\ computers[2].last_report = StrReport(IsoFeb)
    /\ Len(duplicate_groups) = 1
    /\ analysis[1].keeper[1].computer = computers[2]
    /\ Len(devices_to_remove) = 1
    /\ devices_to_remove[1].computer = computers[1]

\* the normalization as the sentence gives it: every ':' and '-' removed, the
\* rest in lower case, the whitespace around it trimmed
Bare(s) == SelectSeq(s, LAMBDA c : c \notin {":", "-"})
Folded(s) == [i \in 1..Len(s) |-> LowerChar(s[i])]
Inked(s) == {i \in 1..Len(s) : s[i] \notin Whitespace}
Trimmed(s) ==
    IF Inked(s) = {} THEN <<>>
    ELSE SubSeq(s, CHOOSE i \in Inked(s) : \A j \in Inked(s) : i <= j,
                   CHOOSE i \in Inked(s) : \A j \in Inked(s) : j <= i)

\* that normalization of every address of the model; <<>> for an absent one
Normalized == [m \in AllMacs |-> IF m.null THEN <<>> ELSE Trimmed(Folded(Bare(m.s)))]

\* the addresses whose normalization has exactly 12 characters
TwelveLong == {m \in AllMacs : Len(Normalized[m]) = 12}

\* find_duplicates accepts exactly the addresses of TwelveLong, under their
\* normalization
AcceptsTwelveLong ==
    \A m \in AllMacs :
        /\ mac_accepted(m) <=> m \in TwelveLong
        /\ mac_accepted(m) => normalized_mac(m.s) = Normalized[m]

\* C12: find_duplicates accepts a raw address exactly when, after removing
\* every ':' and '-', lowercasing and trimming, the result has exactly 12
\* characters, whether they are hex digits or not: every group key is a string
\* of 12 characters with no ':' or '-', no uppercase letter and no whitespace
\* around it, the records of a group are those whose address normalizes to its
\* key, and a record is in a group exactly when its address is accepted and
\* another record shares its normalization.
C12_AcceptedExactlyWhenTwelveLong ==
    /\ AcceptsTwelveLong
    /\ \A g \in Range(duplicate_groups) :
          /\ Len(g.mac) = 12
          /\ \A k \in 1..Len(g.mac) : g.mac[k] \notin {":", "-"} \cup Range(UpperCase)
          /\ g.mac[1] \notin Whitespace /\ g.mac[12] \notin Whitespace
          /\ \A c \in Range(g.computers) : Normalized[c.system_mac_address] = g.mac
    /\ pc # "fetched" =>
          \A i \in 1..Len(computers) :
              (\E g \in Range(duplicate_groups) : computers[i] \in Range(g.computers))
              <=> /\ computers[i].system_mac_address \in TwelveLong
                  /\ \E j \in 1..Len(computers) :
                        /\ j # i
                        /\ Normalized[computers[j].system_mac_address]
                              = Normalized[computers[i].system_mac_address]

\* two records whose address has no hex digit form a group under a key of
\* twelve 'z', beside a record whose address, 14 characters long, is in none
C12_Witness ==
    /\ pc = "grouped"
    /\ \E g \in Range(duplicate_groups) : g.mac = Normalized[Mac(MacNonHex)]
    /\ \E c \in Range(computers) :
          /\ c.system_mac_address = Mac(MacLong)
          /\ \A g \in Range(duplicate_groups) : c \notin Range(g.computers)

\* normalizing the normalization of an accepted address gives it again, and
\* it is accepted
Idempotent ==
    \A m \in AllMacs :
        mac_accepted(m) =>
            /\ normalized_mac(normalized_mac(m.s)) = normalized_mac(m.s)
            /\ mac_accepted(Mac(normalized_mac(m.s)))

\* C13: normalization is idempotent: the normalization step of find_duplicates
\* applied to an already-normalized valid identity returns that same identity,
\* so a record whose raw address is already a group key is a member of that
\* same group.
C13_NormalizationIdempotent ==
    /\ Idempotent
    /\ \A g \in Range(duplicate_groups) :
          /\ normalized_mac(g.mac) = g.mac
          /\ \A c \in Range(computers) :
                (~c.system_mac_address.null /\ c.system_mac_address.s = g.mac)
                    => c \in Range(g.computers)

\* a group holds a record whose raw address is its key beside a record whose
\* raw address is another spelling
C13_Witness ==
    /\ pc = "grouped"
    /\ \E g \in Range(duplicate_groups) :
          /\ \E c \in Range(g.computers) : c.system_mac_address.s = g.mac
          /\ \E c \in Range(g.computers) : c.system_mac_address.s # g.mac

\* C14: within each group returned by find_duplicates, the member records
\* appear in the same relative order in which they appeared in the input
\* sequence.
C14_GroupsKeepInputOrder ==
    \A g \in Range(duplicate_groups) :
        /\ \A i \in 1..Len(g.computers) :
              computers[g.computers[i].client_id] = g.computers[i]
        /\ \A i, j \in 1..Len(g.computers) :
              i < j => g.computers[i].client_id < g.computers[j].client_id

\* the first and the third record of the input form a group, in that order,
\* the second being of another device
C14_Witness ==
    /\ pc = "grouped"
    /\ Len(computers) = 3
    /\ \E g \in Range(duplicate_groups) : g.computers = <<computers[1], computers[3]>>

\* the input holds no valid identity shared by two or more records
NoSharedIdentity ==
    \A i \in 1..Len(computers) :
        Cardinality(Carriers(Identity[computers[i].system_mac_address])) < 2

\* C15: when the input sequence is empty, or contains no valid identity shared
\* by two or more records, find_duplicates returns an empty mapping and
\* identify_devices_to_remove returns an empty list for it, nothing being
\* raised: zero groups, zero kept, zero removed, and main does not end in its
\* exception handler.
C15_NoDuplicatesIsNormal ==
    NoSharedIdentity =>
        /\ pc = "fetched" =>
              /\ find_duplicates(computers) = <<>>
              /\ identify_devices_to_remove(find_duplicates(computers), tz)
                    = [raised |-> "", devices_to_remove |-> <<>>, analysis |-> <<>>,
                       warnings |-> <<>>]
        /\ duplicate_groups = <<>>
        /\ devices_to_remove = <<>>
        /\ Kept = {}
        /\ pc \in {"fetched", "grouped", "exit0"}

\* a run on two or more records, one of them with a valid identity, that
\* found no duplicates and ended with status 0
C15_Witness ==
    /\ pc = "exit0"
    /\ Len(computers) >= 2
    /\ NoSharedIdentity
    /\ \E c \in Range(computers) : Identity[c.system_mac_address] # <<>>

\* the keys of the groups a computer is a member of
KeysOf(computer) ==
    {g.mac : g \in {h \in Range(duplicate_groups) : computer \in Range(h.computers)}}

\* C16 as stated: every entry produced by identify_devices_to_remove carries
\* the reason "Duplicate identity <NormalizedIdentity>, older report date",
\* <NormalizedIdentity> being the key of the group of the removed record.
C16_ReasonNamesIdentity ==
    Returned =>
        \A e \in Range(devices_to_remove) :
            /\ e.reason.text = "Duplicate identity "
            /\ KeysOf(e.computer) = {e.reason.mac}
            /\ e.reason.rest = ", older report date"

\* C16: every entry produced by identify_devices_to_remove carries the reason
\* "Duplicate MAC <key>, older report date", <key> being the key of the group
\* the removed record belongs to.
C16_ReasonNamesMac ==
    Returned =>
        \A e \in Range(devices_to_remove) :
            /\ e.reason.text = "Duplicate MAC "
            /\ KeysOf(e.computer) = {e.reason.mac}
            /\ e.reason.rest = ", older report date"

\* two records are marked for removal, one of them under an address that is
\* written differently from the key in its reason
C16_Witness ==
    /\ Returned
    /\ Len(devices_to_remove) = 2
    /\ \E e \in Range(devices_to_remove) :
          e.computer.system_mac_address.s # e.reason.mac

-----------------------------------------------------------------------------
\* C17: running find_duplicates and then identify_devices_to_remove twice on
\* the same list of computers gives the same groups, the same kept record in
\* every group and the same removal list in the same order.  The second run
\* differs from the first when the process has another local timezone: an
\* integer last_report becomes local time, a string one is taken as written.

\* both runs returned from identify_devices_to_remove
BothReturned == previous.ran /\ previous.pc = "identified" /\ Returned

\* the records kept, group by group
KeptOf(groups) ==
    [g \in 1..Len(groups) |->
        [i \in 1..Len(groups[g].keeper) |-> groups[g].keeper[i].computer]]

\* the second run left what the first one left
SameOutcome ==
    /\ duplicate_groups = previous.duplicate_groups
    /\ KeptOf(analysis) = KeptOf(previous.analysis)
    /\ devices_to_remove = previous.devices_to_remove

C17_SameZoneSameOutcome == BothReturned /\ previous.tz = tz => SameOutcome

-----------------------------------------------------------------------------
\* C18: the retry on 429 is bounded: when the server keeps answering 429,
\* _make_request stops retrying after finitely many attempts and the fetch
\* ends, here with the failure of the call that passed the interpreter's
\* recursion limit.
C18_RetryBounded ==
    /\ [](depth <= RecursionLimit)
    /\ (limited ~> pc # "fetching")

\* the server kept answering 429 and the last retry the interpreter allowed failed
C18_Witness == limited /\ depth = RecursionLimit /\ pc = "exit1"

-----------------------------------------------------------------------------
\* C20: get_all_computers requests pages 1, 2, 3, ... in order and returns
\* the received lists joined in that order; it stops after the first page
\* that is empty, not a list or shorter than per_page records and goes on
\* after every page of per_page records, so it returns exactly when the
\* server has sent such a page.

\* the records of the received bodies that are lists, joined in order
RECURSIVE Joined(_)
Joined(bodies) ==
    IF bodies = <<>> THEN <<>>
    ELSE IF bodies[1].kind = "list" THEN bodies[1].items \o Joined(Tail(bodies))
    ELSE Joined(Tail(bodies))

\* empty, not a list, or shorter than per_page records
ShortOrNoList(body) == body.kind # "list" \/ Len(body.items) < per_page

\* the bodies that came before the last one received
Earlier == SubSeq(received, 1, Len(received) - 1)

C20_PagesInOrderUntilShort ==
    pc \in {"fetching", "fetched", "exit1"} =>
        /\ \A p \in 1..Len(received) : received[p] \in Bodies(p)
        /\ computers = Joined(received)
        /\ pc = "fetching" => page = Len(received) + 1
        /\ pc = "fetched" => page = Len(received)
        /\ (pc = "fetched") = (\E p \in 1..Len(received) : ShortOrNoList(received[p]))
        /\ \A p \in 1..Len(Earlier) : Len(Earlier[p].items) >= per_page

\* two pages of per_page records, then a page of one record
C20_Witness ==
    /\ pc = "fetched"
    /\ Len(received) = 3
    /\ Len(received[1].items) = per_page
    /\ Len(received[2].items) = per_page
    /\ Len(received[3].items) = 1
    /\ Len(computers) = 2 * per_page + 1

-----------------------------------------------------------------------------
\* C19: main calls send_report_email only in runs where find_duplicates
\* returned a group, SMTP is configured and --no-email was not given; a run
\* that fetched no computers or found no group can only exit with status 0,
\* and has then neither called send_report_email nor exported a CSV.

\* send_report_email was called, export_report_to_csv was reached
EmailCalled == email_sent # Unset
CsvReached == csv_file # Unset

C19_EmailOnlyWithGroups ==
    /\ EmailCalled => duplicate_groups # <<>> /\ smtp_configured /\ ~args.no_email
    /\ computers = <<>> => pc \in {"fetched", "exit0"}
    /\ (pc # "fetched" /\ duplicate_groups = <<>>) => pc \in {"grouped", "exit0"}
    /\ pc = "exit0" =>
          /\ computers = <<>> \/ duplicate_groups = <<>>
          /\ ~EmailCalled
          /\ ~CsvReached
          /\ results = Unset

\* a run with a group, SMTP configured and no --no-email sent its report,
\* the CSV attached
C19_Witness ==
    /\ pc = "done"
    /\ email_sent = "True"
    /\ csv_file = "csv_filename"
    /\ duplicate_groups # <<>>

-----------------------------------------------------------------------------
\* C21: identify_devices_to_remove, generate_report and main's --email-only
\* branch classify every group alike: the record identify_devices_to_remove
\* keeps is the device_to_keep of both reports, the removed records are the
\* same records in the same order in all three, and no report marks as KEEP a
\* record that identify_devices_to_remove listed for removal.

\* the record a device_info or a computer stands for
Shown(d) == [client_id |-> d.client_id, last_report |-> d.last_report]
AllShown(ds) == [i \in 1..Len(ds) |-> Shown(ds[i])]

\* the records identify_devices_to_remove kept and removed for group g
IdentifiedKept(g) == [i \in 1..Len(analysis[g].keeper) |-> Shown(analysis[g].keeper[i].computer)]
IdentifiedRemoved(mac) == [i \in 1..Len(RemovedOf(mac)) |-> Shown(RemovedOf(mac)[i].computer)]

\* a report classifies as identify_devices_to_remove did
Agrees(report) ==
    /\ Len(report.duplicate_groups_detail) = Len(analysis)
    /\ \A g \in 1..Len(analysis) :
          /\ report.duplicate_groups_detail[g].mac_address = analysis[g].mac_address
          /\ AllShown(report.duplicate_groups_detail[g].device_to_keep) = IdentifiedKept(g)
          /\ AllShown(report.duplicate_groups_detail[g].devices_to_remove)
                = IdentifiedRemoved(analysis[g].mac_address)
    /\ AllShown(report.devices_to_remove)
          = [i \in 1..Len(devices_to_remove) |-> Shown(devices_to_remove[i].computer)]
    /\ \A k \in Range(report.devices_to_keep) :
          \A e \in Range(devices_to_remove) : k.client_id # e.computer.client_id

-----------------------------------------------------------------------------
\* C22: grouping is complete and a partition: every input record whose
\* normalized identity is valid and shared with another input record is in
\* exactly one returned group, once, the group keyed by its normalized
\* identity, no two groups have the same key, and once
\* identify_devices_to_remove returned the record is classified exactly once,
\* as kept or as removed.

\* the input records that share a valid identity with another input record
Sharing ==
    {i \in 1..Len(computers) :
        Cardinality(Carriers(Identity[computers[i].system_mac_address])) >= 2}

\* the groups that hold a computer, and its places in a group
GroupsOf(computer) ==
    {g \in 1..Len(duplicate_groups) : computer \in Range(duplicate_groups[g].computers)}
PlacesIn(group, computer) ==
    {k \in 1..Len(group.computers) : group.computers[k] = computer}

\* the times a computer was kept, and the times it was listed for removal
TimesKept(computer) ==
    Cardinality({g \in 1..Len(analysis) :
        \E k \in Range(analysis[g].keeper) : k.computer = computer})
TimesRemoved(computer) ==
    Cardinality({e \in 1..Len(devices_to_remove) :
        devices_to_remove[e].computer = computer})

====
